---- MODULE Spec2Model ----
(***************************************************************************)
(* A model of pyk5: the RFC 3961 simplified-profile crypto engine          *)
(* (src/crypto.py) and the SPAKE test-vector run (src/spake.py).           *)
(*                                                                         *)
(* Byte strings are sequences over 0..255.  The library primitives the     *)
(* code imports (PyCrypto AES, HMAC-SHA1, PBKDF2) are modelled by small    *)
(* stand-ins with the same shapes: AES is a keyed permutation of 16-byte   *)
(* blocks with its inverse, HMAC is a keyed 20-byte digest.                *)
(***************************************************************************)
EXTENDS Integers, Sequences, FiniteSets, TLC

(***************************************************************************)
(* Bytes and byte strings                                                  *)
(***************************************************************************)
RECURSIVE BitXor(_, _)
BitXor(a, b) ==
    IF a = 0 THEN b
    ELSE IF b = 0 THEN a
    ELSE ((a + b) % 2) + 2 * BitXor(a \div 2, b \div 2)

RECURSIVE BitOr(_, _)
BitOr(a, b) ==
    IF a = 0 THEN b
    ELSE IF b = 0 THEN a
    ELSE (IF (a % 2) + (b % 2) > 0 THEN 1 ELSE 0) + 2 * BitOr(a \div 2, b \div 2)

Min(a, b) == IF a < b THEN a ELSE b

Zeros(n) == [i \in 1..n |-> 0]

\* s[a:b] of Python for 0 <= a, clipped to the string.
Slice(s, a, b) == SubSeq(s, a + 1, Min(b, Len(s)))

RECURSIVE Gcd(_, _)
Gcd(a, b) == IF b = 0 THEN a ELSE Gcd(b, a % b)

\* struct.pack('>I', n)
PackI(n) == << (n \div 16777216) % 256, (n \div 65536) % 256, (n \div 256) % 256, n % 256 >>

\* struct.pack('>IB', keyusage, d)
PackIB(n, d) == PackI(n) \o << d >>

_zeropad(s, padsize) == s \o Zeros((padsize - (Len(s) % padsize)) % padsize)

_xorbytes(b1, b2) == [i \in 1..Len(b1) |-> BitXor(b1[i], b2[i])]

(***************************************************************************)
(* n-fold                                                                  *)
(***************************************************************************)
rotate_right(str, nbits) ==
    LET n      == Len(str)
        nbytes == (nbits \div 8) % n
        remain == nbits % 8
        At(j)  == str[(j % n) + 1]
    IN  [k \in 1..n |->
            BitOr(At(k - 1 - nbytes) \div (2 ^ remain),
                  (At(k - 1 - nbytes - 1) * (2 ^ (8 - remain))) % 256)]

\* The loop condition with 0xff itself taken for a carry.
HasCarry_ge(v) == \E i \in 1..Len(v) : v[i] >= 255

HasCarry(v) == \E i \in 1..Len(v) : v[i] > 255

CarryPass(v) ==
    LET n == Len(v)
    IN  [k \in 1..n |-> (v[(k % n) + 1] \div 256) + (v[k] % 256)]

RECURSIVE Propagate(_)
Propagate(v) == IF HasCarry(v) THEN Propagate(CarryPass(v)) ELSE v

add_ones_complement(str1, str2) ==
    Propagate([i \in 1..Min(Len(str1), Len(str2)) |-> str1[i] + str2[i]])

RECURSIVE ConcatRot(_, _, _)
ConcatRot(str, i, count) ==
    IF i >= count THEN << >>
    ELSE rotate_right(str, 13 * i) \o ConcatRot(str, i + 1, count)

RECURSIVE ReduceAdd(_, _, _, _)
ReduceAdd(acc, bigstr, p, nbytes) ==
    IF p >= Len(bigstr) THEN acc
    ELSE ReduceAdd(add_ones_complement(acc, Slice(bigstr, p, p + nbytes)),
                   bigstr, p + nbytes, nbytes)

_nfold(str, nbytes) ==
    LET slen   == Len(str)
        lcm    == (nbytes * slen) \div Gcd(nbytes, slen)
        bigstr == ConcatRot(str, 0, lcm \div slen)
    IN  ReduceAdd(Slice(bigstr, 0, nbytes), bigstr, nbytes, nbytes)

(***************************************************************************)
(* Library primitives (Crypto.Cipher.AES, Crypto.Hash.HMAC/SHA,            *)
(* Crypto.Protocol.KDF.PBKDF2), as stand-ins of the same shape             *)
(***************************************************************************)
AesBlock == 16

RoundKey(k, i) ==
    LET js == {j \in 1..Len(k) : (j - i) % AesBlock = 0}
        RECURSIVE Sum(_)
        Sum(S) == IF S = {} THEN 0
                  ELSE LET j == CHOOSE x \in S : TRUE IN k[j] + Sum(S \ {j})
    IN  (Sum(js) + Len(k) + 7 * i) % 256

\* One block of AES encryption: a key-dependent permutation of the blocks.
AesEncryptBlock(k, b) ==
    [i \in 1..AesBlock |-> (b[((i + 4) % AesBlock) + 1] + RoundKey(k, i)) % 256]

\* Its inverse.
AesDecryptBlock(k, c) ==
    [j \in 1..AesBlock |->
        LET i == ((j - 6) % AesBlock) + 1
        IN  (c[i] - RoundKey(k, i)) % 256]

\* AES.new(key, AES.MODE_CBC, iv).encrypt(data), data a whole number of blocks.
RECURSIVE AesCbcEncrypt(_, _, _)
AesCbcEncrypt(k, iv, data) ==
    IF Len(data) = 0 THEN << >>
    ELSE LET c == AesEncryptBlock(k, _xorbytes(SubSeq(data, 1, AesBlock), iv))
         IN  c \o AesCbcEncrypt(k, c, SubSeq(data, AesBlock + 1, Len(data)))

DigestSize == 20

RECURSIVE PowMod(_, _, _)
PowMod(b, e, m) ==
    IF e = 0 THEN 1
    ELSE LET h == PowMod(b, e \div 2, m)
         IN  (((h * h) % m) * (IF e % 2 = 1 THEN b ELSE 1)) % m

\* The polynomial sum of (s[i] + 1) * mult^(hi - i) over lo..hi, modulo m.
RECURSIVE Poly(_, _, _, _, _)
Poly(s, lo, hi, mult, m) ==
    IF lo > hi THEN 0
    ELSE IF lo = hi THEN (s[lo] + 1) % m
    ELSE LET mid == (lo + hi) \div 2
         IN  (Poly(s, lo, mid, mult, m) * PowMod(mult, hi - mid, m)
                + Poly(s, mid + 1, hi, mult, m)) % m

Absorb(s, mult, m) == Poly(s, 1, Len(s), mult, m)

\* HMAC.new(key, msg, SHA).digest(): a keyed 20-byte digest of msg.
HmacSha1(key, msg) ==
    LET t == << Len(key) >> \o key \o << Len(msg) % 256 >> \o msg
        a == Absorb(t, 131, 32749)
        b == Absorb(t, 137, 32719)
    IN  [j \in 1..DigestSize |->
            CASE j = 1 -> a % 256
              [] j = 2 -> a \div 256
              [] j = 3 -> b % 256
              [] j = 4 -> b \div 256
              [] OTHER -> (a * j + b + j) % 256]

\* PBKDF2(string, salt, dkLen, iterations, prf) with prf = HMAC-SHA1.
PBKDF2(string, salt, dkLen, iterations) ==
    LET u == HmacSha1(string, salt \o PackI(iterations) \o PackI(1))
        v == HmacSha1(string, salt \o PackI(iterations) \o PackI(2))
    IN  SubSeq(u \o v, 1, dkLen)

(***************************************************************************)
(* Keys and enctype profiles                                               *)
(***************************************************************************)
AES128_CTS == 17
AES256_CTS == 18
SHA1_AES128 == 15
SHA1_AES256 == 16

Key(enctype, contents) == [enctype |-> enctype, contents |-> contents]

\* _AESEnctype.enctype: set once on the base class and inherited by both
\* subclasses, neither of which overrides it.
ClsEnctype(cls) == AES256_CTS

blocksize == 16
padsize == 1
macsize == 12

seedsize(cls) == IF cls = "_AES128CTS" THEN 16 ELSE 32

InEnctypeTable(enctype) == enctype \in {AES128_CTS, AES256_CTS}

_get_enctype_profile(enctype) ==
    IF enctype = AES128_CTS THEN "_AES128CTS" ELSE "_AES256CTS"

\* _Enctype.random_to_key
cls_random_to_key(cls, seed) == Key(ClsEnctype(cls), seed)

(***************************************************************************)
(* CBC with ciphertext stealing                                            *)
(***************************************************************************)
\* basic_encrypt with "% 16" in place of "% 16 or 16".
basic_encrypt_lastlen0(key, plaintext) ==
    LET ctext   == AesCbcEncrypt(key.contents, Zeros(16), _zeropad(plaintext, 16))
        n       == Len(ctext)
        lastlen == Len(plaintext) % 16
    IN  IF Len(plaintext) > 16
        THEN SubSeq(ctext, 1, n - 32) \o SubSeq(ctext, n - 15, n)
                \o SubSeq(SubSeq(ctext, n - 31, n - 16), 1, lastlen)
        ELSE ctext

basic_encrypt(key, plaintext) ==
    LET ctext   == AesCbcEncrypt(key.contents, Zeros(16), _zeropad(plaintext, 16))
        n       == Len(ctext)
        lastlen == IF Len(plaintext) % 16 = 0 THEN 16 ELSE Len(plaintext) % 16
    IN  IF Len(plaintext) > 16
        THEN SubSeq(ctext, 1, n - 32) \o SubSeq(ctext, n - 15, n)
                \o SubSeq(SubSeq(ctext, n - 31, n - 16), 1, lastlen)
        ELSE ctext

\* The loop over cblocks[:-2]: CBC-decrypt the blocks 1..upto.
RECURSIVE CbcDecryptHead(_, _, _, _)
CbcDecryptHead(k, cblocks, i, upto) ==
    IF i > upto THEN << >>
    ELSE _xorbytes(AesDecryptBlock(k, cblocks[i]),
                   IF i = 1 THEN Zeros(16) ELSE cblocks[i - 1])
            \o CbcDecryptHead(k, cblocks, i + 1, upto)

\* basic_decrypt with prev_cblock left at the zero block by the loop.
basic_decrypt_prev0(key, ciphertext) ==
    IF Len(ciphertext) = 16 THEN AesDecryptBlock(key.contents, ciphertext)
    ELSE
    LET nb      == (Len(ciphertext) + 15) \div 16
        cblocks == [i \in 1..nb |-> Slice(ciphertext, 16 * (i - 1), 16 * i)]
        lastlen == Len(cblocks[nb])
        head    == CbcDecryptHead(key.contents, cblocks, 1, nb - 2)
        b       == AesDecryptBlock(key.contents, cblocks[nb - 1])
        lastplaintext == _xorbytes(SubSeq(b, 1, lastlen), cblocks[nb])
        omitted == SubSeq(b, lastlen + 1, 16)
    IN  head
          \o _xorbytes(AesDecryptBlock(key.contents, cblocks[nb] \o omitted), Zeros(16))
          \o lastplaintext

basic_decrypt(key, ciphertext) ==
    IF Len(ciphertext) = 16 THEN AesDecryptBlock(key.contents, ciphertext)
    ELSE
    LET nb      == (Len(ciphertext) + 15) \div 16
        cblocks == [i \in 1..nb |-> Slice(ciphertext, 16 * (i - 1), 16 * i)]
        lastlen == Len(cblocks[nb])
        prev_cblock == IF nb > 2 THEN cblocks[nb - 2] ELSE Zeros(16)
        head    == CbcDecryptHead(key.contents, cblocks, 1, nb - 2)
        b       == AesDecryptBlock(key.contents, cblocks[nb - 1])
        lastplaintext == _xorbytes(SubSeq(b, 1, lastlen), cblocks[nb])
        omitted == SubSeq(b, lastlen + 1, 16)
    IN  head
          \o _xorbytes(AesDecryptBlock(key.contents, cblocks[nb] \o omitted), prev_cblock)
          \o lastplaintext

\* Number of single-block AES decryptions basic_decrypt performs.
basic_decrypt_blocks(ciphertext) == (Len(ciphertext) + 15) \div 16

(***************************************************************************)
(* Key derivation                                                          *)
(***************************************************************************)
RECURSIVE DeriveLoop(_, _, _, _)
DeriveLoop(cls, key, plaintext, rndseed) ==
    IF Len(rndseed) < seedsize(cls)
    THEN LET ciphertext == basic_encrypt(key, plaintext)
         IN  DeriveLoop(cls, key, ciphertext, rndseed \o ciphertext)
    ELSE rndseed

\* derive folding only the four usage bytes of the constant.
derive_usage_only(cls, key, constant) ==
    LET rndseed == DeriveLoop(cls, key, _nfold(SubSeq(constant, 1, Min(4, Len(constant))),
                                               blocksize), << >>)
    IN  cls_random_to_key(cls, SubSeq(rndseed, 1, seedsize(cls)))

derive(cls, key, constant) ==
    LET rndseed == DeriveLoop(cls, key, _nfold(constant, blocksize), << >>)
    IN  cls_random_to_key(cls, SubSeq(rndseed, 1, seedsize(cls)))

(***************************************************************************)
(* encrypt / decrypt of the simplified profile, as functions               *)
(***************************************************************************)
cls_encrypt(cls, key, keyusage, plaintext, confounder) ==
    LET ki == derive(cls, key, PackIB(keyusage, 85))
        ke == derive(cls, key, PackIB(keyusage, 170))
        basic_plaintext == confounder \o _zeropad(plaintext, padsize)
        hmac == HmacSha1(ki.contents, basic_plaintext)
    IN  basic_encrypt(ke, basic_plaintext) \o SubSeq(hmac, 1, macsize)

(***************************************************************************)
(* Inputs                                                                  *)
(***************************************************************************)
\* Plaintexts have 1..MaxPlainLen bytes; key usages are 1..MaxUsage.
MaxPlainLen == 34
MaxUsage == 2

\* An argument left out (Python's None).
NoneArg == << -1 >>

Pattern(n, a, c) == [i \in 1..n |-> (a * i + c) % 256]

\* Keys a caller can hold: Key(17, 16 bytes), Key(18, 32 bytes), and
\* Key(18, 16 bytes), which is what random_to_key(17, seed) hands out.
KeyInputs ==
    { Key(AES128_CTS, Pattern(16, 37, 1)),
      Key(AES256_CTS, Pattern(32, 91, 3)),
      Key(AES256_CTS, Pattern(16, 53, 9)) }

Usages == 1..MaxUsage

Plaintexts(lens) == { Pattern(n, 29, n) : n \in lens }

\* The lengths at which the number of cipher blocks changes: a confounder
\* block and one more byte, and a whole number of blocks.
EdgeLens == { n \in 1..MaxPlainLen : n % blocksize <= 1 }

\* What get_random_bytes(blocksize) may return.
RandomBlocks == { Pattern(16, 11, 200), Pattern(16, 3, 77) }

\* Confounders callers pass: none, or a block of their own.
ConfounderArgs == { NoneArg, Pattern(16, 101, 5) }

FlipBit(s, pos, bit) == [s EXCEPT ![pos] = BitXor(s[pos], 2 ^ bit)]

(***************************************************************************)
(* State                                                                   *)
(***************************************************************************)
VARIABLES
    pc,     \* position of the running call
    enc,    \* the last encrypt call: arguments, confounder used, output
    dec,    \* the running decrypt call: argument, locals, outcome
    kop,    \* a key-producing call: random_to_key, string_to_key or derive
    ck,     \* a verify_checksum call
    sp,     \* the running SPAKE vectors() call
    ref,    \* what an earlier vectors() call ended with
    rng,    \* the state of the generator behind the random module
    add,    \* the running add_ones_complement call: arguments, v, result
    cmp     \* the running _mac_equal call: arguments, loop position, res

vars == << pc, enc, dec, kop, ck, sp, ref, rng, add, cmp >>

NoEnc == [key |-> Key(0, << >>), keyusage |-> 0, plaintext |-> << >>,
          confounder |-> NoneArg, used |-> << >>, out |-> << >>]

NoDec == [input |-> << >>, how |-> "none", ki |-> Key(0, << >>), ke |-> Key(0, << >>),
          basic_ctext |-> << >>, mac |-> << >>, basic_plaintext |-> << >>,
          status |-> "running", out |-> << >>, aes_dec |-> 0, mac_cmp |-> 0]

NoKey == Key(0, << >>)

NoKop == [op |-> "none", enctype |-> 0, seed |-> << >>, string |-> << >>,
          salt |-> << >>, params |-> NoneArg, iterations |-> 0,
          base |-> NoKey, labelA |-> << >>, labelB |-> << >>,
          status |-> "none", out |-> NoKey, outB |-> NoKey]

NoCk == [cksumtype |-> 0, key |-> NoKey, keyusage |-> 0, text |-> << >>,
         cksum |-> << >>, expected |-> << >>, status |-> "none"]

NoSp == [enctype |-> 0, cksumtype |-> 0, gnum |-> 0, skip_support |-> FALSE,
         rejected_challenge |-> NoneArg, k |-> NoKey, w |-> 0, x |-> 0, y |-> 0,
         X |-> 0, Y |-> 0, T |-> 0, S |-> 0, K |-> 0, KfromS |-> 0, KfromT |-> 0,
         cksum |-> << >>, folded |-> << >>, msgs |-> << >>, body |-> << >>,
         keys |-> << >>, status |-> "none"]

NoRef == [set |-> FALSE, k |-> NoKey, gnum |-> 0, K |-> 0, body |-> << >>,
          msgs |-> << >>, cksum |-> << >>, keys |-> << >>, run |-> NoSp]

\* The generator of the random module, shared by every caller in the
\* process: a state below RngMod, stepped once per number drawn.
RngMod == 16

\* random.seed(a)
RngSeed(a) == a % RngMod

RngStep(s) == (5 * s + 3) % RngMod

\* random.randrange(0, n) on the generator in state s: the number returned.
randrange(s, n) == (RngStep(s) * n) \div RngMod

NoAdd == [str1 |-> << >>, str2 |-> << >>, v |-> << >>, out |-> << >>]

NoCmp == [mac1 |-> << >>, mac2 |-> << >>, i |-> 0, res |-> 0, steps |-> 0,
          returned |-> FALSE, out |-> FALSE]

Init ==
    /\ pc = "idle"
    /\ enc = NoEnc
    /\ dec = NoDec
    /\ kop = NoKop
    /\ ck = NoCk
    /\ sp = NoSp
    /\ ref = NoRef
    /\ rng = RngSeed(0)
    /\ add = NoAdd
    /\ cmp = NoCmp

(***************************************************************************)
(* encrypt(key, keyusage, plaintext, confounder=None)                      *)
(***************************************************************************)
Encrypt(lens) ==
    /\ pc = "idle"
    /\ \E key \in KeyInputs, keyusage \in Usages, plaintext \in Plaintexts(lens),
          confounder \in ConfounderArgs :
         \E used \in (IF confounder = NoneArg THEN RandomBlocks ELSE {confounder}) :
            LET e == _get_enctype_profile(key.enctype)
            IN  enc' = [key |-> key, keyusage |-> keyusage, plaintext |-> plaintext,
                        confounder |-> confounder, used |-> used,
                        out |-> cls_encrypt(e, key, keyusage, plaintext, used)]
    /\ pc' = "encrypted"
    /\ UNCHANGED << dec, kop, ck, sp, ref, rng, add, cmp >>

EncryptAny == Encrypt(1..MaxPlainLen)

EncryptEdge == Encrypt(EdgeLens)

(***************************************************************************)
(* decrypt(key, keyusage, ciphertext), statement by statement              *)
(***************************************************************************)
DecryptCall(ciphertext, how) ==
    /\ pc = "encrypted"
    /\ dec' = [NoDec EXCEPT !.input = ciphertext, !.how = how]
    /\ pc' = "dec_call"
    /\ UNCHANGED << enc, kop, ck, sp, ref, rng, add, cmp >>

\* The receiver is handed what encrypt returned.
DecryptValid == DecryptCall(enc.out, "valid")

\* ... or that with one bit flipped,
DecryptFlipped ==
    \E pos \in 1..Len(enc.out), bit \in 0..7 :
        DecryptCall(FlipBit(enc.out, pos, bit), "flipped")

\* ... or a proper prefix of it.
DecryptTruncated ==
    \E n \in 0..(Len(enc.out) - 1) :
        DecryptCall(SubSeq(enc.out, 1, n), "truncated")

\* ki = cls.derive(key, usage|0x55); ke = cls.derive(key, usage|0xAA)
DecDerive ==
    /\ pc = "dec_call"
    /\ LET cls == _get_enctype_profile(enc.key.enctype)
       IN  dec' = [dec EXCEPT !.ki = derive(cls, enc.key, PackIB(enc.keyusage, 85)),
                              !.ke = derive(cls, enc.key, PackIB(enc.keyusage, 170))]
    /\ pc' = "dec_derived"
    /\ UNCHANGED << enc, kop, ck, sp, ref, rng, add, cmp >>

\* The length check with "<=" for "<".
DecCheck_le ==
    /\ pc = "dec_derived"
    /\ LET n           == Len(dec.input)
           basic_ctext == SubSeq(dec.input, 1, n - macsize)
           mac         == SubSeq(dec.input, n - macsize + 1, n)
       IN  IF n <= blocksize + macsize
           THEN /\ dec' = [dec EXCEPT !.status = "ciphertext too short"]
                /\ pc' = "dec_done"
           ELSE /\ dec' = [dec EXCEPT !.basic_ctext = basic_ctext, !.mac = mac]
                /\ pc' = "dec_split"
    /\ UNCHANGED << enc, kop, ck, sp, ref, rng, add, cmp >>

\* The two length checks and the split into body and MAC.
DecCheck ==
    /\ pc = "dec_derived"
    /\ LET n           == Len(dec.input)
           basic_ctext == SubSeq(dec.input, 1, n - macsize)
           mac         == SubSeq(dec.input, n - macsize + 1, n)
       IN  IF n < blocksize + macsize
           THEN /\ dec' = [dec EXCEPT !.status = "ciphertext too short"]
                /\ pc' = "dec_done"
           ELSE IF Len(basic_ctext) % padsize # 0
           THEN /\ dec' = [dec EXCEPT
                             !.status = "ciphertext does not meet padding requirement",
                             !.basic_ctext = basic_ctext, !.mac = mac]
                /\ pc' = "dec_done"
           ELSE /\ dec' = [dec EXCEPT !.basic_ctext = basic_ctext, !.mac = mac]
                /\ pc' = "dec_split"
    /\ UNCHANGED << enc, kop, ck, sp, ref, rng, add, cmp >>

\* basic_plaintext = cls.basic_decrypt(ke, basic_ctext)
DecBasic ==
    /\ pc = "dec_split"
    /\ dec' = [dec EXCEPT !.basic_plaintext = basic_decrypt(dec.ke, dec.basic_ctext),
                          !.aes_dec = @ + basic_decrypt_blocks(dec.basic_ctext)]
    /\ pc' = "dec_plain"
    /\ UNCHANGED << enc, kop, ck, sp, ref, rng, add, cmp >>

\* _mac_equal stopping one byte early.
_mac_equal_short(mac1, mac2) ==
    LET RECURSIVE Fold(_, _)
        Fold(res, i) == IF i > Min(Len(mac1), Len(mac2)) - 1 THEN res
                        ELSE Fold(BitOr(res, BitXor(mac1[i], mac2[i])), i + 1)
    IN  Fold(0, 1) = 0

\* _mac_equal(mac1, mac2) with its assertion on the lengths holding.
_mac_equal(mac1, mac2) ==
    LET RECURSIVE Fold(_, _)
        Fold(res, i) == IF i > Min(Len(mac1), Len(mac2)) THEN res
                        ELSE Fold(BitOr(res, BitXor(mac1[i], mac2[i])), i + 1)
    IN  Fold(0, 1) = 0

\* The MAC is recomputed and compared; the confounder is dropped on success.
DecMac ==
    /\ pc = "dec_plain"
    /\ LET hmac   == HmacSha1(dec.ki.contents, dec.basic_plaintext)
           expmac == SubSeq(hmac, 1, macsize)
       IN  IF ~ _mac_equal(dec.mac, expmac)
           THEN dec' = [dec EXCEPT !.status = "ciphertext integrity failure",
                                   !.mac_cmp = @ + 1]
           ELSE dec' = [dec EXCEPT !.status = "ok", !.mac_cmp = @ + 1,
                                   !.out = SubSeq(dec.basic_plaintext, blocksize + 1,
                                                  Len(dec.basic_plaintext))]
    /\ pc' = "dec_done"
    /\ UNCHANGED << enc, kop, ck, sp, ref, rng, add, cmp >>

DecSteps == DecDerive \/ DecCheck \/ DecBasic \/ DecMac

NextRound == EncryptAny \/ DecryptValid \/ DecSteps

NextTamper == EncryptEdge \/ DecryptFlipped \/ DecSteps

NextShort == EncryptEdge \/ DecryptTruncated \/ DecryptValid \/ DecSteps

SpecRound == Init /\ [][NextRound]_vars

SpecTamper == Init /\ [][NextTamper]_vars

SpecShort == Init /\ [][NextShort]_vars

(***************************************************************************)
(* add_ones_complement(str1, str2), pass by pass                           *)
(***************************************************************************)
\* Strings of 1..MaxAddLen bytes over the byte values at which a sum does
\* or does not carry.
MaxAddLen == 3

AddBytes == {0, 1, 128, 255}

AddStrings(n) == [1..n -> AddBytes]

\* n = len(str1); v = [ord(a) + ord(b) for a, b in zip(str1, str2)]
AddCall ==
    /\ pc = "idle"
    /\ \E n \in 1..MaxAddLen :
         \E str1 \in AddStrings(n), str2 \in AddStrings(n) :
            add' = [NoAdd EXCEPT !.str1 = str1, !.str2 = str2,
                                 !.v = [i \in 1..n |-> str1[i] + str2[i]]]
    /\ pc' = "add_loop"
    /\ UNCHANGED << enc, dec, kop, ck, sp, ref, rng, cmp >>

\* One pass of the while loop.
AddPass ==
    /\ pc = "add_loop"
    /\ HasCarry(add.v)
    /\ add' = [add EXCEPT !.v = CarryPass(add.v)]
    /\ UNCHANGED << pc, enc, dec, kop, ck, sp, ref, rng, cmp >>

\* The loop left: return ''.join(chr(x) for x in v)
AddReturn ==
    /\ pc = "add_loop"
    /\ ~ HasCarry(add.v)
    /\ add' = [add EXCEPT !.out = add.v]
    /\ pc' = "add_done"
    /\ UNCHANGED << enc, dec, kop, ck, sp, ref, rng, cmp >>

NextAdd == AddCall \/ AddPass \/ AddReturn

SpecAdd == Init /\ [][NextAdd]_vars

\* A call that was made runs on: the interpreter takes the next step of the
\* loop whenever there is one.
SpecAddFair == SpecAdd /\ WF_vars(AddPass \/ AddReturn)

(***************************************************************************)
(* _mac_equal(mac1, mac2), byte pair by byte pair                          *)
(***************************************************************************)
\* MACs of 1..MaxMacLen bytes (the truncated HMAC has macsize = 12).
MaxMacLen == 12

MacStrings(n) == { Pattern(n, 7, 3), Zeros(n), Pattern(n, 0, 255) }

\* What a received MAC is compared with: itself, or itself with the low or
\* the high bit of one byte changed, or with every byte changed.
MacOthers(mac) ==
    {mac} \cup { FlipBit(mac, p, b) : p \in 1..Len(mac), b \in {0, 7} }
          \cup { [k \in 1..Len(mac) |-> BitXor(mac[k], 90)] }

\* assert len(mac1) == len(mac2), holding; res = 0
MacEqualCall ==
    /\ pc = "idle"
    /\ \E n \in 1..MaxMacLen :
         \E mac1 \in MacStrings(n) :
            \E mac2 \in MacOthers(mac1) :
               cmp' = [NoCmp EXCEPT !.mac1 = mac1, !.mac2 = mac2, !.i = 1]
    /\ pc' = "cmp_loop"
    /\ UNCHANGED << enc, dec, kop, ck, sp, ref, rng, add >>

\* The loop body leaving the loop at the first byte pair that differs.
MacEqualStep_early ==
    /\ pc = "cmp_loop"
    /\ cmp.i <= Min(Len(cmp.mac1), Len(cmp.mac2))
    /\ LET d == BitXor(cmp.mac1[cmp.i], cmp.mac2[cmp.i])
       IN  cmp' = [cmp EXCEPT !.res = BitOr(@, d), !.steps = @ + 1,
                              !.i = IF d # 0 THEN Min(Len(cmp.mac1), Len(cmp.mac2)) + 1
                                    ELSE @ + 1]
    /\ UNCHANGED << pc, enc, dec, kop, ck, sp, ref, rng, add >>

\* for x, y in zip(mac1, mac2): res |= ord(x) ^ ord(y)
MacEqualStep ==
    /\ pc = "cmp_loop"
    /\ cmp.i <= Min(Len(cmp.mac1), Len(cmp.mac2))
    /\ cmp' = [cmp EXCEPT !.res = BitOr(@, BitXor(cmp.mac1[cmp.i], cmp.mac2[cmp.i])),
                          !.steps = @ + 1, !.i = @ + 1]
    /\ UNCHANGED << pc, enc, dec, kop, ck, sp, ref, rng, add >>

\* return res == 0
MacEqualReturn ==
    /\ pc = "cmp_loop"
    /\ cmp.i > Min(Len(cmp.mac1), Len(cmp.mac2))
    /\ cmp' = [cmp EXCEPT !.returned = TRUE, !.out = (cmp.res = 0)]
    /\ pc' = "cmp_done"
    /\ UNCHANGED << enc, dec, kop, ck, sp, ref, rng, add >>

NextMacEqual == MacEqualCall \/ MacEqualStep \/ MacEqualReturn

SpecMacEqual == Init /\ [][NextMacEqual]_vars

(***************************************************************************)
(* basic_encrypt / basic_decrypt called on their own                       *)
(***************************************************************************)
\* Plaintexts of 16..MaxBasicLen bytes: one block up to three blocks and a byte.
MaxBasicLen == 49

BasicPlaintexts ==
    { Pattern(n, a, n) : n \in blocksize..MaxBasicLen, a \in {29, 0} }

\* cls.basic_encrypt(key, plaintext), its assertion on the length holding.
BasicEncrypt ==
    /\ pc = "idle"
    /\ \E key \in KeyInputs, plaintext \in BasicPlaintexts :
         enc' = [NoEnc EXCEPT !.key = key, !.plaintext = plaintext,
                              !.out = basic_encrypt(key, plaintext)]
    /\ pc' = "basic_enc"
    /\ UNCHANGED << dec, kop, ck, sp, ref, rng, add, cmp >>

\* cls.basic_decrypt(key, ciphertext) on what basic_encrypt returned.
BasicDecrypt ==
    /\ pc = "basic_enc"
    /\ dec' = [NoDec EXCEPT !.input = enc.out, !.how = "valid", !.status = "ok",
                            !.out = basic_decrypt(enc.key, enc.out),
                            !.aes_dec = basic_decrypt_blocks(enc.out)]
    /\ pc' = "basic_dec"
    /\ UNCHANGED << enc, kop, ck, sp, ref, rng, add, cmp >>

NextBasic == BasicEncrypt \/ BasicDecrypt

SpecBasic == Init /\ [][NextBasic]_vars

(***************************************************************************)
(* random_to_key, string_to_key, derive                                    *)
(***************************************************************************)
RC4_HMAC == 23

EnctypeArgs == { AES128_CTS, AES256_CTS, RC4_HMAC }

SeedArgs == { Pattern(n, 19, 2) : n \in {15, 16, 32} }

\* random_to_key(enctype, seed)
RandomToKey ==
    /\ pc = "idle"
    /\ \E enctype \in EnctypeArgs, seed \in SeedArgs :
         LET e == _get_enctype_profile(enctype)
             r == [NoKop EXCEPT !.op = "random_to_key", !.enctype = enctype,
                                !.seed = seed]
         IN  kop' = IF ~ InEnctypeTable(enctype)
                    THEN [r EXCEPT !.status = "Invalid enctype"]
                    ELSE IF Len(seed) # seedsize(e)
                    THEN [r EXCEPT !.status = "Wrong crypto seed length"]
                    ELSE [r EXCEPT !.status = "ok", !.out = cls_random_to_key(e, seed)]
    /\ pc' = "key_done"
    /\ UNCHANGED << enc, dec, ck, sp, ref, rng, add, cmp >>

\* '\x00\x00\x10\x00'
DefaultParams == << 0, 0, 16, 0 >>

\* struct.unpack('>L', s) of a 4-byte string.
UnpackL(s) == ((s[1] * 256 + s[2]) * 256 + s[3]) * 256 + s[4]

\* "params or default": None and the empty string are both false.
ParamsOrDefault(params) ==
    IF params = NoneArg \/ params = << >> THEN DefaultParams ELSE params

Kerberos == << 107, 101, 114, 98, 101, 114, 111, 115 >>

\* _AESEnctype.string_to_key, for a parameter string unpack accepts.
cls_string_to_key(cls, string, salt, params) ==
    LET iterations == UnpackL(ParamsOrDefault(params))
        seed == PBKDF2(string, salt, seedsize(cls), iterations)
        tkey == cls_random_to_key(cls, seed)
    IN  derive(cls, tkey, Kerberos)

MaxStrings == 2

StringArgs == { Pattern(8, 7, s) : s \in 1..MaxStrings }

SaltArgs == { Pattern(5, 13, s) : s \in 1..MaxStrings }

\* Iteration-count parameters: left out, empty, 4 bytes (two values, one of
\* them the default count), 3 bytes, 5 bytes.
ParamsArgs ==
    { NoneArg, << >>, << 0, 0, 0, 2 >>, DefaultParams, << 0, 0, 2 >>, << 0, 0, 0, 0, 2 >> }

\* string_to_key(enctype, string, salt, params=None)
StringToKey ==
    /\ pc = "idle"
    /\ \E enctype \in EnctypeArgs, string \in StringArgs, salt \in SaltArgs,
          params \in ParamsArgs :
         LET e == _get_enctype_profile(enctype)
             r == [NoKop EXCEPT !.op = "string_to_key", !.enctype = enctype,
                                !.string = string, !.salt = salt, !.params = params]
         IN  kop' = IF ~ InEnctypeTable(enctype)
                    THEN [r EXCEPT !.status = "Invalid enctype"]
                    ELSE IF Len(ParamsOrDefault(params)) # 4
                    THEN [r EXCEPT !.status = "struct.error"]
                    ELSE [r EXCEPT !.status = "ok",
                                   !.iterations = UnpackL(ParamsOrDefault(params)),
                                   !.out = cls_string_to_key(e, string, salt, params)]
    /\ pc' = "key_done"
    /\ UNCHANGED << enc, dec, ck, sp, ref, rng, add, cmp >>

\* Labels: the usage constants of encrypt, decrypt and checksum, "kerberos",
\* a one-byte label, the 16-byte block it folds to, and longer ones.
LabelArgs ==
    { PackIB(u, d) : u \in Usages, d \in {85, 170, 153} }
      \cup { Kerberos, << 107 >>, _nfold(<< 107 >>, blocksize),
             Pattern(16, 5, 1), Pattern(17, 5, 1), Pattern(3, 5, 1) }

\* derive(key, constant) of the key's profile, for two labels on one base key.
Derive ==
    /\ pc = "idle"
    /\ \E base \in KeyInputs, labelA \in LabelArgs, labelB \in LabelArgs :
         LET cls == _get_enctype_profile(base.enctype)
         IN  kop' = [NoKop EXCEPT !.op = "derive", !.enctype = base.enctype,
                                  !.base = base, !.labelA = labelA, !.labelB = labelB,
                                  !.status = "ok",
                                  !.out = derive(cls, base, labelA),
                                  !.outB = derive(cls, base, labelB)]
    /\ pc' = "key_done"
    /\ UNCHANGED << enc, dec, ck, sp, ref, rng, add, cmp >>

NextKey == RandomToKey \/ StringToKey \/ Derive

SpecKey == Init /\ [][NextKey]_vars

(***************************************************************************)
(* make_checksum / verify_checksum                                         *)
(***************************************************************************)
InChecksumTable(cksumtype) == cksumtype \in {SHA1_AES128, SHA1_AES256}

_get_checksum_profile(cksumtype) ==
    IF cksumtype = SHA1_AES128 THEN "_SHA1AES128" ELSE "_SHA1AES256"

\* The enc attribute of the checksum profile.
CksumEnc(c) == IF c = "_SHA1AES128" THEN "_AES128CTS" ELSE "_AES256CTS"

\* _SimplifiedChecksum.checksum
checksum(c, key, keyusage, text) ==
    LET kc   == derive(CksumEnc(c), key, PackIB(keyusage, 153))
        hmac == HmacSha1(kc.contents, text)
    IN  SubSeq(hmac, 1, macsize)

make_checksum(cksumtype, key, keyusage, text) ==
    checksum(_get_checksum_profile(cksumtype), key, keyusage, text)

TextArgs == { << >>, Pattern(8, 3, 1), Pattern(37, 17, 4) }

\* Candidates a verifier may be handed: the checksum itself, the checksum
\* with one bit flipped, another MAC-sized string, a prefix, nothing, and
\* the checksum with a byte appended.
Candidates(expected) ==
    { expected, FlipBit(expected, 1, 0), FlipBit(expected, macsize, 7),
      Zeros(macsize), SubSeq(expected, 1, macsize - 1), << >>,
      expected \o << 0 >> }

\* verify_checksum(cksumtype, key, keyusage, text, cksum)
VerifyChecksum ==
    /\ pc = "idle"
    /\ \E cksumtype \in {SHA1_AES128, SHA1_AES256}, key \in KeyInputs,
          keyusage \in Usages, text \in TextArgs :
         LET expected == make_checksum(cksumtype, key, keyusage, text)
         IN  \E cksum \in Candidates(expected) :
               ck' = [cksumtype |-> cksumtype, key |-> key, keyusage |-> keyusage,
                      text |-> text, cksum |-> cksum, expected |-> expected,
                      status |-> IF Len(cksum) # Len(expected) THEN "AssertionError"
                                 ELSE IF ~ _mac_equal(cksum, expected)
                                 THEN "checksum verification failure"
                                 ELSE "ok"]
    /\ pc' = "ck_done"
    /\ UNCHANGED << enc, dec, kop, sp, ref, rng, add, cmp >>

NextCksum == VerifyChecksum

SpecCksum == Init /\ [][NextCksum]_vars

(***************************************************************************)
(* SPAKE: the groups, PRF+ and the message encodings                       *)
(***************************************************************************)
KEY_USAGE_SPAKE_TRANSCRIPT == 65

\* Group numbers of the two groups modelled: one with a cofactor (the shape
\* of edwards25519) and one of prime order (the shape of the P curves).
\* Each is the integers modulo `size` under addition; G generates the
\* subgroup of `order` elements.
Groups == {1, 2}

Group(gnum) ==
    IF gnum = 1
    THEN [size |-> 24, order |-> 3, cofactor |-> 8, wbytes |-> 2,
          G |-> 8, M |-> 16, N |-> 9]
    ELSE [size |-> 5, order |-> 5, cofactor |-> 1, wbytes |-> 2,
          G |-> 1, M |-> 2, N |-> 3]

ec_mul(g, P, n) == (P * n) % g.size

ec_add(g, P, Q) == (P + Q) % g.size

ec_neg(g, P) == (g.size - P) % g.size

ec_encode_point(g, P) == << P >>

ec_decode_int(g, b) == b[1] * 256 + b[2]

\* seedsize(enctype) of the crypto module spake.py imports.
enctype_seedsize(enctype) == IF enctype = AES128_CTS THEN 16 ELSE 32

\* prfplus(key, s, n): blocks of a keyed PRF over a counter and s, cut to n.
prfplus(key, str, n) ==
    LET blk(i) == HmacSha1(key.contents, << i >> \o str)
    IN  SubSeq(blk(1) \o blk(2), 1, n)

\* DER of PA-SPAKE [0] SPAKESupport { groups [0] SEQUENCE OF INTEGER }
make_support_encoding(gnum) ==
    << 160, 9, 48, 7, 160, 5, 48, 3, 2, 1, gnum >>

\* DER of SPAKEChallenge { group [0], pubkey [1], factors [2] }
make_challenge_encoding(gnum, Tbytes) ==
    LET n == Len(Tbytes)
    IN  << 48, 20 + n, 160, 3, 2, 1, gnum, 161, n + 2, 4, n >> \o Tbytes
          \o << 162, 9, 48, 7, 48, 5, 160, 3, 2, 1, 1 >>

\* DER of the KDC-REQ-BODY, of which only the etype varies.
make_body_encoding(enctype) ==
    << 48, 7, 167, 5, 48, 3, 2, 1, enctype >>

Password == << 112, 97, 115, 115, 119, 111, 114, 100 >>

Salt == << 65, 84, 72, 69, 78, 65, 46, 77, 73, 84, 46, 69, 68, 85,
           114, 97, 101, 98, 117, 114, 110 >>

SPAKEkey == << 83, 80, 65, 75, 69, 107, 101, 121 >>

\* update_checksum leaving the running checksum out of what it hashes.
update_checksum_unchained(cksumtype, key, cksum, b) ==
    make_checksum(cksumtype, key, KEY_USAGE_SPAKE_TRANSCRIPT, b)

update_checksum(cksumtype, key, cksum, b) ==
    make_checksum(cksumtype, key, KEY_USAGE_SPAKE_TRANSCRIPT, cksum \o b)

\* The prfplus input and output of derive_key.
derive_key_seed(k, gnum, Kbytes, cksum, body, n) ==
    prfplus(k, SPAKEkey \o PackI(gnum) \o PackI(k.enctype) \o Kbytes
                 \o cksum \o body \o PackI(n),
            enctype_seedsize(k.enctype))

\* random_to_key(k.enctype, seed), whose checks pass for this seed length.
derive_key(k, gnum, Kbytes, cksum, body, n) ==
    cls_random_to_key(_get_enctype_profile(k.enctype),
                      derive_key_seed(k, gnum, Kbytes, cksum, body, n))

(***************************************************************************)
(* SPAKE: vectors(), statement by statement                                *)
(***************************************************************************)
\* The blinding PRF output is any string of wbytes bytes with value up to
\* MaxWprf; ephemeral scalars are r * cofactor for r up to MaxScalar and
\* below the order (up to MaxPairScalar where two runs are compared).
MaxWprf == 4
MaxScalar == 4
MaxPairScalar == 1

\* The enctype and checksum type passed together by the driver.
EnctypePairs == { << AES128_CTS, SHA1_AES128 >>, << AES256_CTS, SHA1_AES256 >> }

\* rejected_challenge: left out, empty, or an optimistic challenge for
\* another group.
RejectedArgs ==
    { NoneArg, << >>, make_challenge_encoding(3, << 9 >>) }

\* Python truth of the rejected_challenge argument.
Truthy(b) == b # NoneArg /\ b # << >>

\* assert not skip_support or not rejected_challenge; k = string_to_key(...)
StartRun(pair, gnum, skip_support, rejected_challenge) ==
    LET r == [NoSp EXCEPT !.enctype = pair[1], !.cksumtype = pair[2], !.gnum = gnum,
                          !.skip_support = skip_support,
                          !.rejected_challenge = rejected_challenge]
    IN  IF skip_support /\ Truthy(rejected_challenge)
        THEN [r EXCEPT !.status = "AssertionError"]
        ELSE [r EXCEPT !.status = "running",
                       !.k = cls_string_to_key(_get_enctype_profile(pair[1]),
                                               Password, Salt, NoneArg)]

\* vectors(enctype, cksumtype, gnum, ..., skip_support, rejected_challenge)
SpakeBegin ==
    /\ pc = "idle"
    /\ \E pair \in EnctypePairs, gnum \in Groups, skip_support \in BOOLEAN,
          rejected_challenge \in RejectedArgs :
         LET r == StartRun(pair, gnum, skip_support, rejected_challenge)
         IN  /\ sp' = r
             /\ pc' = IF r.status = "running" THEN "sp_keyed" ELSE "sp_bad_args"
    /\ UNCHANGED << enc, dec, kop, ck, ref, rng, add, cmp >>

\* A second call with the same enctype, checksum type and group after one
\* that ended: the master key and the blinding scalar, functions of these,
\* come out as before.
SpakeAgain ==
    /\ pc = "sp_done"
    /\ ~ ref.set
    /\ ref' = [set |-> TRUE, k |-> sp.k, gnum |-> sp.gnum, K |-> sp.K, body |-> sp.body,
               msgs |-> sp.msgs, cksum |-> sp.cksum, keys |-> sp.keys, run |-> sp]
    /\ \E skip_support \in BOOLEAN, rejected_challenge \in RejectedArgs :
         LET r == StartRun(<< sp.enctype, sp.cksumtype >>, sp.gnum, skip_support,
                           rejected_challenge)
         IN  /\ sp' = [r EXCEPT !.w = sp.w]
             /\ pc' = IF r.status = "running" THEN "sp_blinded" ELSE "sp_bad_args"
    /\ UNCHANGED << enc, dec, kop, ck, rng, add, cmp >>

\* w = ec.decode_int(wprf) % order
SpakeBlind ==
    /\ pc = "sp_keyed"
    /\ \E v \in 0..MaxWprf :
         LET g    == Group(sp.gnum)
             wprf == << v \div 256, v % 256 >>
         IN  sp' = [sp EXCEPT !.w = ec_decode_int(g, wprf) % g.order]
    /\ pc' = "sp_blinded"
    /\ UNCHANGED << enc, dec, kop, ck, ref, rng, add, cmp >>

\* The unblinding of S with the subtraction turned into an addition.
SharedFromS_added(g, S, w, x) == ec_mul(g, ec_add(g, S, ec_mul(g, g.N, w)), x)

SharedFromS(g, S, w, x) == ec_mul(g, ec_add(g, S, ec_neg(g, ec_mul(g, g.N, w))), x)

SharedFromT(g, T, w, y) == ec_mul(g, ec_add(g, T, ec_neg(g, ec_mul(g, g.M, w))), y)

\* x, y, X, Y, T, S, K and the three cross-checks.  A run that is to be
\* compared with an earlier one draws scalars that give the same shared point.
Ephemeral(maxr) ==
    /\ pc = "sp_blinded"
    /\ \E rx \in 0..maxr, ry \in 0..maxr :
         LET g == Group(sp.gnum)
             x == rx * g.cofactor
             y == ry * g.cofactor
             X == ec_mul(g, g.G, x)
             Y == ec_mul(g, g.G, y)
             T == ec_add(g, ec_mul(g, g.M, sp.w), X)
             S == ec_add(g, ec_mul(g, g.N, sp.w), Y)
             K == ec_mul(g, X, y)
             r == [sp EXCEPT !.x = x, !.y = y, !.X = X, !.Y = Y, !.T = T, !.S = S,
                             !.K = K, !.KfromS = SharedFromS(g, S, sp.w, x),
                             !.KfromT = SharedFromT(g, T, sp.w, y)]
         IN  /\ rx < g.order /\ ry < g.order
             /\ ref.set => K = ref.K
             /\ IF K = ec_mul(g, Y, x) /\ K = r.KfromS /\ K = r.KfromT
                THEN /\ sp' = r
                     /\ pc' = "sp_points"
                ELSE /\ sp' = [r EXCEPT !.status = "AssertionError"]
                     /\ pc' = "sp_failed"
    /\ UNCHANGED << enc, dec, kop, ck, ref, rng, add, cmp >>

SpakeEphemeral == Ephemeral(MaxScalar)

SpakeEphemeralFew == Ephemeral(MaxPairScalar)

SPAKEsecret == << 83, 80, 65, 75, 69, 115, 101, 99, 114, 101, 116 >>

\* wprf = prfplus(k, 'SPAKEsecret' + pack('>I', gnum), wbytes) and w, computed.
SpakeBlindPrf ==
    /\ pc = "sp_keyed"
    /\ LET g    == Group(sp.gnum)
           wprf == prfplus(sp.k, SPAKEsecret \o PackI(sp.gnum), g.wbytes)
       IN  sp' = [sp EXCEPT !.w = ec_decode_int(g, wprf) % g.order]
    /\ pc' = "sp_blinded"
    /\ UNCHANGED << enc, dec, kop, ck, ref, rng, add, cmp >>

\* x and y drawn, in this order, from the generator of the random module,
\* which each draw steps; then the points and the three cross-checks.
SpakeEphemeralDrawn ==
    /\ pc = "sp_blinded"
    /\ LET g  == Group(sp.gnum)
           s1 == RngStep(rng)
           x  == randrange(rng, g.order) * g.cofactor
           y  == randrange(s1, g.order) * g.cofactor
           X  == ec_mul(g, g.G, x)
           Y  == ec_mul(g, g.G, y)
           T  == ec_add(g, ec_mul(g, g.M, sp.w), X)
           S  == ec_add(g, ec_mul(g, g.N, sp.w), Y)
           K  == ec_mul(g, X, y)
           r  == [sp EXCEPT !.x = x, !.y = y, !.X = X, !.Y = Y, !.T = T, !.S = S,
                            !.K = K, !.KfromS = SharedFromS(g, S, sp.w, x),
                            !.KfromT = SharedFromT(g, T, sp.w, y)]
       IN  /\ rng' = RngStep(s1)
           /\ IF K = ec_mul(g, Y, x) /\ K = r.KfromS /\ K = r.KfromT
              THEN /\ sp' = r
                   /\ pc' = "sp_points"
              ELSE /\ sp' = [r EXCEPT !.status = "AssertionError"]
                   /\ pc' = "sp_failed"
    /\ UNCHANGED << enc, dec, kop, ck, ref, add, cmp >>

\* The driver's next vectors() call after one that returned, as in its run
\* of AES256 calls over the groups and the optimistic-challenge options; the
\* first call after random.seed(0) is kept for comparison.
SpakeCallNext ==
    /\ pc = "sp_done"
    /\ ref' = IF ref.set THEN ref
              ELSE [set |-> TRUE, k |-> sp.k, gnum |-> sp.gnum, K |-> sp.K,
                    body |-> sp.body, msgs |-> sp.msgs, cksum |-> sp.cksum,
                    keys |-> sp.keys, run |-> sp]
    /\ \E gnum \in Groups, skip_support \in BOOLEAN,
          rejected_challenge \in RejectedArgs :
         LET r == StartRun(<< sp.enctype, sp.cksumtype >>, gnum, skip_support,
                           rejected_challenge)
         IN  /\ sp' = r
             /\ pc' = IF r.status = "running" THEN "sp_keyed" ELSE "sp_bad_args"
    /\ UNCHANGED << enc, dec, kop, ck, rng, add, cmp >>

\* cksum = '\0' * cksumlen
SpakeCksumInit ==
    /\ pc = "sp_points"
    /\ sp' = [sp EXCEPT !.cksum = Zeros(Len(make_checksum(sp.cksumtype, sp.k, 0, << >>)))]
    /\ pc' = "sp_zero"
    /\ UNCHANGED << enc, dec, kop, ck, ref, rng, add, cmp >>

FoldIn(kind, b) ==
    [sp EXCEPT !.cksum = update_checksum(sp.cksumtype, sp.k, sp.cksum, b),
               !.folded = Append(@, kind), !.msgs = Append(@, b)]

\* if rejected_challenge: ...
SpakeFoldRejected ==
    /\ pc = "sp_zero"
    /\ sp' = IF Truthy(sp.rejected_challenge)
             THEN FoldIn("rejected", sp.rejected_challenge)
             ELSE sp
    /\ pc' = "sp_rejected"
    /\ UNCHANGED << enc, dec, kop, ck, ref, rng, add, cmp >>

\* The support message folded only when no challenge was rejected.
SpakeFoldSupport_elif ==
    /\ pc = "sp_rejected"
    /\ sp' = IF ~ sp.skip_support /\ ~ Truthy(sp.rejected_challenge)
             THEN FoldIn("support", make_support_encoding(sp.gnum))
             ELSE sp
    /\ pc' = "sp_support"
    /\ UNCHANGED << enc, dec, kop, ck, ref, rng, add, cmp >>

\* if not skip_support: ...
SpakeFoldSupport ==
    /\ pc = "sp_rejected"
    /\ sp' = IF ~ sp.skip_support
             THEN FoldIn("support", make_support_encoding(sp.gnum))
             ELSE sp
    /\ pc' = "sp_support"
    /\ UNCHANGED << enc, dec, kop, ck, ref, rng, add, cmp >>

SpakeFoldChallenge ==
    /\ pc = "sp_support"
    /\ sp' = FoldIn("challenge",
                  make_challenge_encoding(sp.gnum, ec_encode_point(Group(sp.gnum), sp.T)))
    /\ pc' = "sp_challenge"
    /\ UNCHANGED << enc, dec, kop, ck, ref, rng, add, cmp >>

SpakeFoldPubkey ==
    /\ pc = "sp_challenge"
    /\ sp' = FoldIn("pubkey", ec_encode_point(Group(sp.gnum), sp.S))
    /\ pc' = "sp_final"
    /\ UNCHANGED << enc, dec, kop, ck, ref, rng, add, cmp >>

\* body and K'[0..3]
SpakeDeriveKeys ==
    /\ pc = "sp_final"
    /\ LET body   == make_body_encoding(sp.enctype)
           Kbytes == ec_encode_point(Group(sp.gnum), sp.K)
       IN  sp' = [sp EXCEPT !.body = body, !.status = "ok",
                            !.keys = [n \in 1..4 |->
                                derive_key(sp.k, sp.gnum, Kbytes, sp.cksum, body, n - 1)]]
    /\ pc' = "sp_done"
    /\ UNCHANGED << enc, dec, kop, ck, ref, rng, add, cmp >>

SpakeFolds ==
    \/ SpakeCksumInit
    \/ SpakeFoldRejected
    \/ SpakeFoldSupport
    \/ SpakeFoldChallenge
    \/ SpakeFoldPubkey
    \/ SpakeDeriveKeys

NextSpake == SpakeBegin \/ SpakeBlind \/ SpakeEphemeral \/ SpakeFolds

NextSpakePair == SpakeBegin \/ SpakeAgain \/ SpakeBlind \/ SpakeEphemeralFew \/ SpakeFolds

SpecSpake == Init /\ [][NextSpake]_vars

SpecSpakePair == Init /\ [][NextSpakePair]_vars

NextSessions ==
    SpakeBegin \/ SpakeCallNext \/ SpakeBlindPrf \/ SpakeEphemeralDrawn \/ SpakeFolds

SpecSessions == Init /\ [][NextSessions]_vars

(***************************************************************************)
(* Claims                                                                  *)
(***************************************************************************)
\* C1: decrypting what encrypt returned, with the same key and usage, ends
\* normally and returns exactly the plaintext that was encrypted, whether the
\* confounder was drawn by encrypt or passed by the caller.
RoundTrip ==
    (pc = "dec_done" /\ dec.how = "valid") =>
        (dec.status = "ok" /\ dec.out = enc.plaintext)

RoundTripWitness ==
    /\ pc = "dec_done" /\ dec.how = "valid" /\ dec.status = "ok"
    /\ Len(enc.plaintext) = 33 /\ enc.confounder # NoneArg
    /\ enc.key.enctype = AES128_CTS

\* C2: a ciphertext with any one bit flipped, in the body or in the MAC, is
\* rejected with the integrity failure and returns no plaintext.
TamperDetected ==
    (pc = "dec_done" /\ dec.how = "flipped") =>
        (dec.status = "ciphertext integrity failure" /\ dec.out = << >>)

TamperWitness ==
    /\ pc = "dec_done" /\ dec.how = "flipped"
    /\ dec.status = "ciphertext integrity failure"
    /\ dec.mac = SubSeq(enc.out, Len(enc.out) - macsize + 1, Len(enc.out))

\* C7: decrypt ends with "ciphertext too short" exactly when the input has
\* fewer than blocksize + macsize bytes, and then no block was decrypted and
\* no MAC compared.
TooShortFirst ==
    /\ (pc = "dec_done") =>
          ((dec.status = "ciphertext too short") <=> (Len(dec.input) < 16 + 12))
    /\ (dec.status = "ciphertext too short") => (dec.aes_dec = 0 /\ dec.mac_cmp = 0)
    /\ (dec.aes_dec > 0 \/ dec.mac_cmp > 0) => Len(dec.input) >= 16 + 12

TooShortWitness ==
    /\ pc = "dec_done" /\ dec.status = "ciphertext too short"
    /\ Len(dec.input) = 27

\* C3: a Key returned by random_to_key, string_to_key or derive carries the
\* tag of the enctype asked for (for derive, of the base key) and as many
\* bytes as that enctype's seed size.
KeyTagMatches ==
    (pc = "key_done" /\ kop.status = "ok") =>
        /\ kop.out.enctype = kop.enctype
        /\ Len(kop.out.contents) = seedsize(_get_enctype_profile(kop.enctype))

\* C5: verify_checksum ends normally exactly for the candidate equal to
\* make_checksum's value, and with "checksum verification failure" for every
\* other candidate, whatever its length.
VerifyIffEqual ==
    (pc = "ck_done") =>
        /\ (ck.status = "ok") <=> (ck.cksum = ck.expected)
        /\ (ck.cksum # ck.expected) => (ck.status = "checksum verification failure")

\* C6: the count 4096 is the default only for a parameter left out, and
\* every parameter string given whose length is not 4, the empty one
\* included, is an error.
ParamsChecked ==
    (pc = "key_done" /\ kop.op = "string_to_key" /\ InEnctypeTable(kop.enctype)) =>
        /\ (kop.params # NoneArg /\ Len(kop.params) # 4) => kop.status # "ok"
        /\ (kop.status = "ok" /\ kop.iterations = 4096)
              => (kop.params = NoneArg \/ kop.params = DefaultParams)

\* C10 as stated: distinct labels give distinct derived keys.
DeriveInjective ==
    (pc = "key_done" /\ kop.op = "derive" /\ kop.labelA # kop.labelB) =>
        kop.out # kop.outB

\* C10, amended: two labels give the same derived key exactly when they
\* n-fold to the same block; labels with distinct folds give distinct keys.
DeriveSeparatesFolds ==
    (pc = "key_done" /\ kop.op = "derive") =>
        ((kop.out = kop.outB)
            <=> (_nfold(kop.labelA, blocksize) = _nfold(kop.labelB, blocksize)))

DeriveSeparatesWitness ==
    /\ pc = "key_done" /\ kop.op = "derive"
    /\ kop.labelA = PackIB(1, 85) /\ kop.labelB = PackIB(1, 170)
    /\ kop.out # kop.outB

\* C4 as stated: a finished run folded exactly one of the rejected
\* challenge and the support message, then the challenge, then the pubkey.
ExactlyOneOfRejectedSupport ==
    (pc = "sp_done") =>
        sp.folded \in { << "rejected", "challenge", "pubkey" >>,
                        << "support", "challenge", "pubkey" >> }

\* C4, amended: a finished run folded the rejected challenge exactly when
\* one was passed, then the support message exactly when skip_support is
\* off, then the challenge, then the pubkey; a rejected challenge is never
\* folded without the support message, but both are folded when a rejected
\* challenge is passed and neither when skip_support is on.
FoldOrder ==
    (pc = "sp_done") =>
        /\ sp.folded =
              (IF Truthy(sp.rejected_challenge) THEN << "rejected" >> ELSE << >>)
                \o (IF sp.skip_support THEN << >> ELSE << "support" >>)
                \o << "challenge", "pubkey" >>
        /\ sp.folded \in { << "rejected", "support", "challenge", "pubkey" >>,
                           << "support", "challenge", "pubkey" >>,
                           << "challenge", "pubkey" >> }

FoldOrderWitness ==
    /\ pc = "sp_done"
    /\ sp.folded = << "rejected", "support", "challenge", "pubkey" >>

\* C8: for every w, x and y the shared point computed from S and the one
\* computed from T are equal, both are (G*x)*y, and no cross-check fails.
SharedPointAgrees ==
    /\ pc # "sp_failed"
    /\ (pc \in {"sp_points", "sp_failed"}) =>
          LET g == Group(sp.gnum)
          IN  /\ sp.KfromS = sp.KfromT
              /\ sp.KfromS = ec_mul(g, ec_mul(g, g.G, sp.x), sp.y)
              /\ sp.K = sp.KfromS

SharedPointWitness ==
    /\ pc = "sp_points" /\ sp.gnum = 1
    /\ sp.w = 2 /\ sp.x = 8 /\ sp.y = 16 /\ sp.K # 0

\* C9: two finished runs with the same master key, group, shared point and
\* request body that folded different message sequences end with different
\* transcript checksums and differ in at least one of K'[0..3].
TranscriptSensitive ==
    (/\ pc = "sp_done" /\ ref.set
     /\ ref.k = sp.k /\ ref.gnum = sp.gnum /\ ref.K = sp.K /\ ref.body = sp.body
     /\ ref.msgs # sp.msgs) =>
        /\ ref.cksum # sp.cksum
        /\ \E n \in 1..4 : ref.keys[n] # sp.keys[n]

\* Two such runs, one of which left the support message out.
TranscriptWitness ==
    /\ pc = "sp_done" /\ ref.set
    /\ ref.k = sp.k /\ ref.gnum = sp.gnum /\ ref.K = sp.K /\ ref.body = sp.body
    /\ Len(ref.msgs) = 3 /\ Len(sp.msgs) = 2
    /\ ref.msgs[2] = sp.msgs[1] /\ ref.msgs[3] = sp.msgs[2]
    /\ ref.cksum # sp.cksum
\* The arguments of two vectors() calls are the same.
SameCall(a, b) ==
    /\ a.enctype = b.enctype /\ a.cksumtype = b.cksumtype /\ a.gnum = b.gnum
    /\ a.skip_support = b.skip_support
    /\ a.rejected_challenge = b.rejected_challenge

\* C11: a session's ephemeral scalars, public points, transcript checksum
\* and confirmation keys are those the same call gives as the first session
\* of the process, however many sessions ran before it.
SessionsIndependent ==
    (pc = "sp_done" /\ ref.set /\ SameCall(sp, ref.run)) =>
        /\ sp.x = ref.run.x /\ sp.y = ref.run.y
        /\ sp.X = ref.run.X /\ sp.Y = ref.run.Y
        /\ sp.T = ref.run.T /\ sp.S = ref.run.S
        /\ sp.cksum = ref.run.cksum
        /\ sp.keys = ref.run.keys

\* C12: for every key and plaintext of 16 bytes or more, basic_encrypt
\* returns as many bytes as the plaintext has, and basic_decrypt of them
\* under the same key returns exactly the plaintext.
BasicRoundTrip ==
    /\ (pc \in {"basic_enc", "basic_dec"}) => Len(enc.out) = Len(enc.plaintext)
    /\ (pc = "basic_dec") => dec.out = enc.plaintext

\* A plaintext of exactly two blocks, whose last two cipher blocks are
\* swapped whole.
BasicRoundTripWitness ==
    /\ pc = "basic_dec" /\ Len(enc.plaintext) = 32
    /\ dec.out = enc.plaintext
    /\ SubSeq(enc.out, 17, 32)
          = AesEncryptBlock(enc.key.contents, SubSeq(enc.plaintext, 1, 16))

\* The sum of two equal-length big-endian strings and a carry in, byte by
\* byte from the right: the bytes of the sum, and the carry out.
RECURSIVE Ripple(_, _, _, _)
Ripple(a, b, i, cin) ==
    IF i = 0 THEN [bytes |-> << >>, carry |-> cin]
    ELSE LET t    == a[i] + b[i] + cin
             rest == Ripple(a, b, i - 1, t \div 256)
         IN  [bytes |-> Append(rest.bytes, t % 256), carry |-> rest.carry]

\* The ones'-complement sum: the carry out of the top byte is added back in
\* at the bottom.
OnesComplementSum(a, b) ==
    LET s == Ripple(a, b, Len(a), 0)
    IN  IF s.carry = 0 THEN s.bytes
        ELSE Ripple(s.bytes, Zeros(Len(a)), Len(a), s.carry).bytes

\* C13: every add_ones_complement call on equal-length strings leaves its
\* carry loop and returns; what it returns has the arguments' length, only
\* bytes in 0..255, and is their ones'-complement sum.
AddTerminates ==
    /\ [](pc = "add_done" =>
            /\ Len(add.out) = Len(add.str1)
            /\ \A i \in 1..Len(add.out) : add.out[i] \in 0..255
            /\ add.out = OnesComplementSum(add.str1, add.str2))
    /\ ((pc = "add_loop") ~> (pc = "add_done"))

\* A carry out of the top byte that runs round the whole string: ff ff 80
\* plus 00 00 80.
AddTerminatesWitness ==
    /\ pc = "add_done"
    /\ add.str1 = << 255, 255, 128 >> /\ add.str2 = << 0, 0, 128 >>
    /\ add.out = << 0, 0, 1 >>

\* C14: a comparison of two MACs of one length returns after as many steps
\* as the MACs have bytes, whether they are equal, differ in the first byte
\* or differ only in the last, never sooner; and it returns true exactly
\* when they are equal.
MacEqualAllBytes ==
    /\ (pc = "cmp_done") =>
          /\ cmp.steps = Len(cmp.mac1)
          /\ cmp.out <=> (cmp.mac1 = cmp.mac2)
          /\ cmp.out = _mac_equal(cmp.mac1, cmp.mac2)
    /\ (pc = "cmp_loop") => cmp.steps = cmp.i - 1

\* Two MACs of macsize bytes that differ in the first byte alone.
MacEqualWitness ==
    /\ pc = "cmp_done" /\ Len(cmp.mac1) = macsize
    /\ cmp.mac1[1] # cmp.mac2[1]
    /\ SubSeq(cmp.mac1, 2, macsize) = SubSeq(cmp.mac2, 2, macsize)
    /\ cmp.steps = macsize /\ ~ cmp.out
====
